---- MODULE Spec2Model ----
(***************************************************************************)
(* Model of the Discord attendance bot: the attendance store               *)
(* (bot/database.py), the clock-in / clock-out command handlers            *)
(* (bot/commands.py) and the pure aggregation helpers (bot/utils.py).      *)
(*                                                                         *)
(* Time.  A datetime is a record [day, second, microsecond]: day counts    *)
(* calendar days from a Monday, second is the second of the day.  A        *)
(* timestamp stored by SQLite (CURRENT_TIMESTAMP) has whole seconds only   *)
(* and is kept as an integer number of seconds (day * 86400 + second).     *)
(* Durations are kept in seconds: total_hours of the source is             *)
(* total_seconds / 3600, an exact rational here (float rounding of the     *)
(* division is not modelled).                                              *)
(***************************************************************************)
EXTENDS Integers, Sequences, FiniteSets, TLC

\* ------------------------------------------------------------------ bounds
MaxClock == 1          \* seconds the store's clock may advance
MaxRecords == 3        \* rows in attendance_records
MaxDayRecords == 4     \* records of one day handed to calculate_daily_work_hours
MaxWeekRecords == 4    \* records of one weekly view
MaxWeeksOffset == 2    \* |weeks_offset| handed to get_week_start_end
MaxInits == 3          \* runs of init_database on one database file

\* two command handlers may be in flight at once, for two Discord users
Procs == {1, 2}
DiscordIds == {1, 2}

\* The type names a clock-in command may carry: one of the defaults and one
\* that is not in the table.
TypeArgs == {"Regular Work", "Vacation"}

\* ------------------------------------------------------------- the store
VARIABLES
    plan,                \* index SQLite's planner uses for get_latest_record
    clock,               \* CURRENT_TIMESTAMP of the store, in seconds
    users,               \* table users, in rowid order
    attendance_types,    \* table attendance_types, in rowid order
    attendance_records,  \* table attendance_records, in rowid order
    \* ------------------------------------------------ command handlers
    pc,                  \* position of each handler
    cmd,                 \* command each handler runs
    caller,              \* interaction.user.id of each handler
    user,                \* local 'user' (its id) of each handler
    type_obj,            \* local 'attendance_type_obj' (its id)
    response,            \* title of the follow-up the handler sent last
    followups,           \* follow-ups each handler sent since its defer
    serial,              \* history: no two commands of one Discord user overlapped
    \* -------------------------------- arguments and results of pure helpers
    day_records,         \* argument of calculate_daily_work_hours
    day_result,          \* its result
    week_records,        \* records the weekly view aggregates
    week_result,         \* what the weekly view computed
    target_date,         \* arguments of get_week_start_end
    weeks_offset,
    window_result,       \* its result
    \* ------------------------------------------------- the bot's host
    inits,               \* times init_database has run on the database file
    utc_offset           \* local time minus UTC, in seconds

machine_vars == <<plan, clock, users, attendance_types, attendance_records,
                  pc, cmd, caller, user, type_obj, response, followups,
                  serial>>

pure_vars == <<day_records, day_result, week_records, week_result,
               target_date, weeks_offset, window_result,
               inits, utc_offset>>

vars == <<machine_vars, pure_vars>>

\* absent row / Python None
NoRecord == [id |-> 0, user_id |-> 0, record_type |-> "none",
             attendance_type_id |-> 0, timestamp |-> 0]

default_types == <<"Regular Work", "Remote Work", "Overtime", "Meeting", "Training">>

\* the variant of a plain INSERT into a table without the UNIQUE column
insert_default_attendance_types_mut(table) ==
    table \o [i \in 1..Len(default_types) |->
                 [id |-> Len(table) + i, type_name |-> default_types[i],
                  is_active |-> TRUE]]

\* INSERT OR IGNORE of the five defaults: type_name is UNIQUE, so a name
\* the table already holds is skipped, the others get the next ids
insert_default_attendance_types(table) ==
    LET missing == SelectSeq(default_types, LAMBDA type_name :
                       \A i \in 1..Len(table) : table[i].type_name # type_name)
    IN table \o [i \in 1..Len(missing) |->
                    [id |-> Len(table) + i, type_name |-> missing[i],
                     is_active |-> TRUE]]

\* SELECT ... FROM attendance_types WHERE is_active = TRUE
get_attendance_types ==
    SelectSeq(attendance_types, LAMBDA t : t.is_active)

\* SELECT ... FROM attendance_types WHERE type_name = ? AND is_active = TRUE;
\* the id of the row, 0 for None
get_attendance_type_by_name(type_name) ==
    LET hits == {i \in 1..Len(attendance_types) :
                    /\ attendance_types[i].type_name = type_name
                    /\ attendance_types[i].is_active}
    IN IF hits = {} THEN 0 ELSE attendance_types[CHOOSE i \in hits : TRUE].id

\* the variant without the WHERE clause
select_user_first(discord_id) ==
    IF users = <<>> THEN 0 ELSE users[1].id

\* SELECT ... FROM users WHERE discord_id = ?; the id of the row, 0 for none
select_user(discord_id) ==
    LET hits == {i \in 1..Len(users) : users[i].discord_id = discord_id}
    IN IF hits = {} THEN 0 ELSE users[CHOOSE i \in hits : TRUE].id

\* the variant without WHERE user_id = ?
get_latest_record_any(user_id) ==
    IF attendance_records = <<>> THEN NoRecord
    ELSE attendance_records[Len(attendance_records)]

\* SELECT ... WHERE user_id = ? ORDER BY timestamp DESC LIMIT 1.
\* Rows with equal timestamps have no order defined by the query: SQLite
\* returns the lowest rowid of the tie when it searches by
\* idx_attendance_records_user_id and sorts, and the highest rowid when it
\* scans idx_attendance_records_timestamp backwards.
get_latest_record(user_id) ==
    LET rows == {i \in 1..Len(attendance_records) :
                    attendance_records[i].user_id = user_id}
        top == {i \in rows : \A j \in rows :
                    attendance_records[j].timestamp <= attendance_records[i].timestamp}
    IN IF rows = {} THEN NoRecord
       ELSE IF plan = "user_id_index"
            THEN attendance_records[CHOOSE i \in top : \A j \in top : i <= j]
            ELSE attendance_records[CHOOSE i \in top : \A j \in top : i >= j]

can_clock_in(user_id) ==
    LET latest_record == get_latest_record(user_id)
    IN IF latest_record = NoRecord THEN TRUE
       ELSE IF latest_record.record_type = "clock_out" THEN TRUE
       ELSE FALSE

can_clock_out_mut(user_id) ==
    LET latest_record == get_latest_record(user_id)
    IN IF latest_record = NoRecord THEN TRUE
       ELSE IF latest_record.record_type = "clock_in" THEN TRUE
       ELSE FALSE

can_clock_out(user_id) ==
    LET latest_record == get_latest_record(user_id)
    IN IF latest_record = NoRecord THEN FALSE
       ELSE IF latest_record.record_type = "clock_in" THEN TRUE
       ELSE FALSE

\* INSERT INTO attendance_records (...) with timestamp DEFAULT CURRENT_TIMESTAMP
create_attendance_record(user_id, record_type, attendance_type_id) ==
    Append(attendance_records,
           [id |-> Len(attendance_records) + 1, user_id |-> user_id,
            record_type |-> record_type,
            attendance_type_id |-> attendance_type_id, timestamp |-> clock])

\* ------------------------------------------------------- bot/utils.py
SecondsPerDay == 24 * 3600

\* datetime + timedelta(days, seconds), with the carry into the day
datetime_add(dt, days, seconds) ==
    LET s == dt.second + seconds
    IN [day |-> dt.day + days + (s \div SecondsPerDay),
        second |-> s % SecondsPerDay,
        microsecond |-> dt.microsecond]

\* datetime.weekday(): 0 for Monday; day 0 is a Monday
weekday(dt) == dt.day % 7

\* the variant a forgotten replace(hour=0, ...) would give
get_week_start_end_mut(target, offset) ==
    LET days_since_monday == weekday(target)
        week_start1 == datetime_add(target, -days_since_monday, 0)
        week_start == datetime_add(week_start1, 7 * offset, 0)
        week_end == datetime_add(week_start, 6, 23 * 3600 + 59 * 60 + 59)
    IN [week_start |-> week_start, week_end |-> week_end]

get_week_start_end(target, offset) ==
    LET days_since_monday == weekday(target)
        week_start1 == datetime_add(target, -days_since_monday, 0)
        week_start2 == datetime_add(week_start1, 7 * offset, 0)
        week_start == [week_start2 EXCEPT !.second = 0, !.microsecond = 0]
        week_end == datetime_add(week_start, 6, 23 * 3600 + 59 * 60 + 59)
    IN [week_start |-> week_start, week_end |-> week_end]

\* the variant with the operands of the subtraction exchanged
calculate_work_hours_mut(clock_in, clock_out) == clock_in - clock_out

\* (clock_out - clock_in).total_seconds(); the source divides it by 3600.
\* Both arguments are datetimes here, never None.
calculate_work_hours(clock_in, clock_out) == clock_out - clock_in

\* the variant of a working day that begins at 06:00
record_date_mut(record) == (record.timestamp - 6 * 3600) \div SecondsPerDay

\* record.timestamp.date()
record_date(record) == record.timestamp \div SecondsPerDay

\* the variant that leaves the list as it came
sorted_by_timestamp_mut(records) == records

\* sorted(records, key=lambda r: r.timestamp): stable, ascending
RECURSIVE sorted_by_timestamp(_)
sorted_by_timestamp(records) ==
    IF records = <<>> THEN <<>>
    ELSE LET front == sorted_by_timestamp(SubSeq(records, 1, Len(records) - 1))
             x == records[Len(records)]
             keep == Cardinality({i \in 1..Len(front) : front[i].timestamp <= x.timestamp})
         IN SubSeq(front, 1, keep) \o <<x>> \o SubSeq(front, keep + 1, Len(front))

\* no clock-in open
NoTime == -1

\* the variant that keeps the clock-in open after its clock-out
scan_record_mut(acc, record) ==
    IF record.record_type = "clock_in"
    THEN [acc EXCEPT !.clock_in_time = record.timestamp]
    ELSE IF record.record_type = "clock_out" /\ acc.clock_in_time # NoTime
         THEN [acc EXCEPT !.total_seconds =
                   @ + calculate_work_hours(acc.clock_in_time, record.timestamp)]
         ELSE acc

\* the variant that keeps the clock-in already open
scan_record_first(acc, record) ==
    IF record.record_type = "clock_in"
    THEN IF acc.clock_in_time = NoTime
         THEN [acc EXCEPT !.clock_in_time = record.timestamp]
         ELSE acc
    ELSE IF record.record_type = "clock_out" /\ acc.clock_in_time # NoTime
         THEN [total_seconds |-> acc.total_seconds
                     + calculate_work_hours(acc.clock_in_time, record.timestamp),
               clock_in_time |-> NoTime]
         ELSE acc

\* the variant that takes any record but a clock_out for an opening one
scan_record_orphan(acc, record) ==
    IF record.record_type = "clock_out" /\ acc.clock_in_time # NoTime
    THEN [total_seconds |-> acc.total_seconds
                + calculate_work_hours(acc.clock_in_time, record.timestamp),
          clock_in_time |-> NoTime]
    ELSE [acc EXCEPT !.clock_in_time = record.timestamp]

\* one turn of the loop of calculate_daily_work_hours
scan_record(acc, record) ==
    IF record.record_type = "clock_in"
    THEN [acc EXCEPT !.clock_in_time = record.timestamp]
    ELSE IF record.record_type = "clock_out" /\ acc.clock_in_time # NoTime
         THEN [total_seconds |-> acc.total_seconds
                     + calculate_work_hours(acc.clock_in_time, record.timestamp),
               clock_in_time |-> NoTime]
         ELSE acc

RECURSIVE scan_records(_, _)
scan_records(acc, records) ==
    IF records = <<>> THEN acc
    ELSE scan_records(scan_record(acc, Head(records)), Tail(records))

\* (total_hours * 3600, has_incomplete)
calculate_daily_work_hours(records) ==
    LET sorted_records == sorted_by_timestamp(records)
        acc == scan_records([total_seconds |-> 0, clock_in_time |-> NoTime],
                            sorted_records)
    IN [total_seconds |-> acc.total_seconds,
        has_incomplete |-> acc.clock_in_time # NoTime]

\* grouped: date -> the records of that date, in the order they came
RECURSIVE group_records_by_date(_)
group_records_by_date(records) ==
    IF records = <<>> THEN <<>>
    ELSE LET grouped == group_records_by_date(SubSeq(records, 1, Len(records) - 1))
             record == records[Len(records)]
             d == record_date(record)
         IN IF d \in DOMAIN grouped
            THEN [grouped EXCEPT ![d] = Append(@, record)]
            ELSE (d :> <<record>>) @@ grouped

\* ------------------------------- bot/commands.py, the weekly aggregation
\* {at.id: at.type_name for at in get_attendance_types()}: the active types
type_map ==
    LET active == {i \in 1..Len(attendance_types) : attendance_types[i].is_active}
    IN [id \in {attendance_types[i].id : i \in active} |->
           attendance_types[CHOOSE i \in active : attendance_types[i].id = id].type_name]

\* type_map.get(record.attendance_type_id, "Unknown")
type_name_of(attendance_type_id) ==
    IF attendance_type_id \in DOMAIN type_map
    THEN type_map[attendance_type_id] ELSE "Unknown"

\* the variant that stops one day short
week_dates_mut(week_start) == [i \in 1..6 |-> week_start.day + (i - 1)]

\* [week_start.date() + timedelta(days=i) for i in range(7)]
week_dates(week_start) == [i \in 1..7 |-> week_start.day + (i - 1)]

\* the variant without the test of attendance_type_id
counts_type_mut(record) == record.record_type = "clock_in"

\* record.record_type == "clock_in" and record.attendance_type_id
counts_type(record) ==
    record.record_type = "clock_in" /\ record.attendance_type_id # 0

\* attendance_type_count[type_name] = attendance_type_count.get(type_name, 0) + 1;
\* the dict is kept as the sequence of its items in insertion order
increment(attendance_type_count, type_name) ==
    LET at == {k \in 1..Len(attendance_type_count) :
                  attendance_type_count[k].name = type_name}
    IN IF at = {}
       THEN Append(attendance_type_count, [name |-> type_name, count |-> 1])
       ELSE [k \in 1..Len(attendance_type_count) |->
                IF k \in at
                THEN [attendance_type_count[k] EXCEPT !.count = @ + 1]
                ELSE attendance_type_count[k]]

RECURSIVE count_attendance_types(_, _)
count_attendance_types(attendance_type_count, records) ==
    IF records = <<>> THEN attendance_type_count
    ELSE count_attendance_types(
            IF counts_type(Head(records))
            THEN increment(attendance_type_count,
                           type_name_of(Head(records).attendance_type_id))
            ELSE attendance_type_count,
            Tail(records))

\* the body of the loop over the days of the week
process_day(acc, current_date, grouped_records) ==
    LET recs == IF current_date \in DOMAIN grouped_records
                THEN grouped_records[current_date] ELSE <<>>
        day == calculate_daily_work_hours(recs)
    IN IF recs = <<>> THEN acc
       ELSE [acc EXCEPT
               !.work_days = @ + 1,
               !.total_work_hours = @ + day.total_seconds,
               !.incomplete_sessions =
                   IF day.has_incomplete THEN Append(@, current_date) ELSE @,
               !.attendance_type_count = count_attendance_types(@, recs)]

RECURSIVE process_days(_, _, _)
process_days(acc, dates, grouped_records) ==
    IF dates = <<>> THEN acc
    ELSE process_days(process_day(acc, Head(dates), grouped_records),
                      Tail(dates), grouped_records)

\* no item of the dict
NoItem == [name |-> "none", count |-> 0]

\* the variant that keeps the last of the items with the highest count
most_used_mut(attendance_type_count) ==
    IF attendance_type_count = <<>> THEN NoItem
    ELSE attendance_type_count[
             CHOOSE k \in 1..Len(attendance_type_count) :
                 \A j \in 1..Len(attendance_type_count) :
                     \/ attendance_type_count[j].count < attendance_type_count[k].count
                     \/ (attendance_type_count[j].count = attendance_type_count[k].count
                         /\ j <= k)]

\* max(attendance_type_count.items(), key=lambda x: x[1]): max keeps the
\* first of the items with the highest key, and items() goes in insertion
\* order; skipped for an empty dict
most_used(attendance_type_count) ==
    IF attendance_type_count = <<>> THEN NoItem
    ELSE attendance_type_count[
             CHOOSE k \in 1..Len(attendance_type_count) :
                 \A j \in 1..Len(attendance_type_count) :
                     \/ attendance_type_count[j].count < attendance_type_count[k].count
                     \/ (attendance_type_count[j].count = attendance_type_count[k].count
                         /\ j >= k)]

\* what _show_weekly_attendance computes from the records of the week
weekly_aggregation(records, week_start) ==
    LET zero == [response |-> "no records", week_start |-> week_start,
                 total_work_hours |-> 0, work_days |-> 0,
                 incomplete_sessions |-> <<>>, attendance_type_count |-> <<>>,
                 most_used |-> NoItem]
        days == process_days([zero EXCEPT !.response = "summary"],
                             week_dates(week_start),
                             group_records_by_date(records))
    IN IF records = <<>> THEN zero
       ELSE [days EXCEPT !.most_used = most_used(days.attendance_type_count)]

\* ---------------------------------------- get_user_attendance_summary
NoSummary == [user_id |-> 0, total_records |-> 0,
              latest_clock_in |-> NoTime, latest_clock_out |-> NoTime,
              is_currently_clocked_in |-> FALSE]

\* SELECT MAX(timestamp) ... GROUP BY record_type, read for one record_type
latest_time(user_id, record_type) ==
    LET rows == {i \in 1..Len(attendance_records) :
                    /\ attendance_records[i].user_id = user_id
                    /\ attendance_records[i].record_type = record_type}
    IN IF rows = {} THEN NoTime
       ELSE attendance_records[CHOOSE i \in rows : \A j \in rows :
                attendance_records[j].timestamp
                    <= attendance_records[i].timestamp].timestamp

\* the variant that derives the flag from the two latest times
currently_clocked_in_mut(user_id) ==
    /\ latest_time(user_id, "clock_in") # NoTime
    /\ latest_time(user_id, "clock_in") > latest_time(user_id, "clock_out")

\* bool(latest_record and latest_record.record_type == "clock_in")
currently_clocked_in(user_id) ==
    LET latest_record == get_latest_record(user_id)
    IN latest_record # NoRecord /\ latest_record.record_type = "clock_in"

\* the users row joined with its records and counted; None without the row
get_user_attendance_summary(user_id) ==
    LET row == {i \in 1..Len(users) : users[i].id = user_id}
        joined == {k \in 1..Len(attendance_records) :
                      attendance_records[k].user_id = user_id}
    IN IF row = {} THEN NoSummary
       ELSE [user_id |-> user_id,
             total_records |-> Cardinality(joined),
             latest_clock_in |-> latest_time(user_id, "clock_in"),
             latest_clock_out |-> latest_time(user_id, "clock_out"),
             is_currently_clocked_in |-> currently_clocked_in(user_id)]

\* ------------------------------------------------------------------ Init
MachineInit ==
    /\ plan \in {"user_id_index", "timestamp_index"}
    /\ clock = 0
    /\ users = <<>>
    /\ attendance_types = insert_default_attendance_types(<<>>)
    /\ attendance_records = <<>>
    /\ pc = [p \in Procs |-> "idle"]
    /\ cmd = [p \in Procs |-> "none"]
    /\ caller = [p \in Procs |-> 0]
    /\ user = [p \in Procs |-> 0]
    /\ type_obj = [p \in Procs |-> 0]
    /\ response = [p \in Procs |-> "none"]
    /\ followups = [p \in Procs |-> 0]
    /\ serial = TRUE

\* a Monday (day 0 is one), four weeks in
Monday == 4 * 7

NoDayResult == [done |-> FALSE, total_seconds |-> 0, has_incomplete |-> FALSE]
NoWeekResult == [response |-> "none", week_start |-> [day |-> 0, second |-> 0, microsecond |-> 0],
                 total_work_hours |-> 0, work_days |-> 0,
                 incomplete_sessions |-> <<>>, attendance_type_count |-> <<>>,
                 most_used |-> [name |-> "none", count |-> 0]]
NoWindow == [done |-> FALSE,
             week_start |-> [day |-> 0, second |-> 0, microsecond |-> 0],
             week_end |-> [day |-> 0, second |-> 0, microsecond |-> 0]]

PureInit ==
    /\ day_records = <<>>
    /\ day_result = NoDayResult
    /\ week_records = <<>>
    /\ week_result = NoWeekResult
    /\ target_date = [day |-> Monday, second |-> 0, microsecond |-> 0]
    /\ weeks_offset = 0
    /\ window_result = NoWindow
    /\ inits = 1
    /\ utc_offset = 0

Init == MachineInit /\ PureInit

\* --------------------------------------------------------------- actions
\* the store's clock moves to the next second
Tick ==
    /\ UNCHANGED pure_vars
    /\ clock < MaxClock
    /\ clock' = clock + 1
    /\ UNCHANGED <<plan, users, attendance_types, attendance_records,
                   pc, cmd, caller, user, type_obj, response, followups,
                   serial>>

\* a command arrives: interaction.response.defer()
Begin(p, c, d) ==
    /\ UNCHANGED pure_vars
    /\ pc[p] = "idle"
    /\ pc' = [pc EXCEPT ![p] = "get_user"]
    /\ cmd' = [cmd EXCEPT ![p] = c]
    /\ caller' = [caller EXCEPT ![p] = d]
    /\ response' = [response EXCEPT ![p] = "none"]
    /\ followups' = [followups EXCEPT ![p] = 0]
    /\ serial' = (serial /\ \A q \in Procs : pc[q] = "idle" \/ caller[q] # d)
    /\ UNCHANGED <<plan, clock, users, attendance_types, attendance_records,
                   user, type_obj>>

\* the variant of a path that returns without a follow-up
Return_silent(p, title) ==
    /\ response' = [response EXCEPT ![p] = title]
    /\ followups' = followups
    /\ pc' = [pc EXCEPT ![p] = "idle"]
    /\ cmd' = [cmd EXCEPT ![p] = "none"]
    /\ caller' = [caller EXCEPT ![p] = 0]
    /\ user' = [user EXCEPT ![p] = 0]
    /\ type_obj' = [type_obj EXCEPT ![p] = 0]

\* the handler sends its follow-up and returns: its locals are gone
Return(p, title) ==
    /\ response' = [response EXCEPT ![p] = title]
    /\ followups' = [followups EXCEPT ![p] = @ + 1]
    /\ pc' = [pc EXCEPT ![p] = "idle"]
    /\ cmd' = [cmd EXCEPT ![p] = "none"]
    /\ caller' = [caller EXCEPT ![p] = 0]
    /\ user' = [user EXCEPT ![p] = 0]
    /\ type_obj' = [type_obj EXCEPT ![p] = 0]

clock_in_defer(p) ==
    \E d \in DiscordIds : Begin(p, "clock_in", d)

clock_out_defer(p) ==
    \E d \in DiscordIds : Begin(p, "clock_out", d)

\* get_or_create_user: the SELECT
get_or_create_user_select(p) ==
    /\ UNCHANGED pure_vars
    /\ pc[p] = "get_user"
    /\ LET id == select_user(caller[p])
       IN IF id # 0
          THEN /\ user' = [user EXCEPT ![p] = id]
               /\ pc' = [pc EXCEPT ![p] = "gate"]
          ELSE /\ pc' = [pc EXCEPT ![p] = "insert_user"]
               /\ user' = user
    /\ UNCHANGED <<plan, clock, users, attendance_types, attendance_records,
                   cmd, caller, type_obj, response, followups, serial>>

\* get_or_create_user: the INSERT and commit; discord_id is UNIQUE, so the
\* INSERT raises when the row appeared since the SELECT, and the handler's
\* except branch answers 'System Error'
get_or_create_user_insert(p) ==
    /\ UNCHANGED pure_vars
    /\ pc[p] = "insert_user"
    /\ IF select_user(caller[p]) # 0
       THEN /\ Return(p, "System Error")
            /\ users' = users
       ELSE /\ users' = Append(users, [id |-> Len(users) + 1,
                                       discord_id |-> caller[p]])
            /\ user' = [user EXCEPT ![p] = Len(users) + 1]
            /\ pc' = [pc EXCEPT ![p] = "gate"]
            /\ UNCHANGED <<cmd, caller, type_obj, response, followups>>
    /\ UNCHANGED <<plan, clock, attendance_types, attendance_records, serial>>

\* clock_in: the test of user.id, can_clock_in, and the 'Cannot Clock In'
\* answer
clock_in_gate(p) ==
    /\ UNCHANGED pure_vars
    /\ pc[p] = "gate" /\ cmd[p] = "clock_in"
    /\ IF user[p] = 0
       THEN Return(p, "Database Error")
       ELSE IF can_clock_in(user[p])
       THEN /\ pc' = [pc EXCEPT ![p] = "get_type"]
            /\ UNCHANGED <<cmd, caller, user, type_obj, response, followups>>
       ELSE Return(p, "Cannot Clock In")
    /\ UNCHANGED <<plan, clock, users, attendance_types, attendance_records, serial>>

\* clock_in: get_attendance_type_by_name of the command's attendance_type
\* argument (read here for the first time), and the 'Invalid Attendance
\* Type' answer
clock_in_get_type(p) ==
    /\ UNCHANGED pure_vars
    /\ pc[p] = "get_type"
    /\ \E attendance_type \in TypeArgs :
         LET id == get_attendance_type_by_name(attendance_type)
         IN IF id = 0
            THEN Return(p, "Invalid Attendance Type")
            ELSE /\ type_obj' = [type_obj EXCEPT ![p] = id]
                 /\ pc' = [pc EXCEPT ![p] = "create"]
                 /\ UNCHANGED <<cmd, caller, user, response, followups>>
    /\ UNCHANGED <<plan, clock, users, attendance_types, attendance_records, serial>>

\* clock_in: create_attendance_record and the 'Clocked In' answer
clock_in_create(p) ==
    /\ UNCHANGED pure_vars
    /\ pc[p] = "create" /\ cmd[p] = "clock_in"
    /\ Len(attendance_records) < MaxRecords
    /\ attendance_records' = create_attendance_record(user[p], "clock_in", type_obj[p])
    /\ Return(p, "Clocked In")
    /\ UNCHANGED <<plan, clock, users, attendance_types, serial>>

\* the variant that records the attempt before it answers no
clock_out_gate_writes(p) ==
    /\ UNCHANGED pure_vars
    /\ pc[p] = "gate" /\ cmd[p] = "clock_out"
    /\ IF can_clock_out(user[p])
       THEN /\ pc' = [pc EXCEPT ![p] = "create"]
            /\ UNCHANGED <<cmd, caller, user, type_obj, response, followups,
                           attendance_records>>
       ELSE /\ Len(attendance_records) < MaxRecords
            /\ attendance_records' = create_attendance_record(user[p], "clock_out", 0)
            /\ Return(p, "Cannot Clock Out")
    /\ UNCHANGED <<plan, clock, users, attendance_types, serial>>

\* clock_out: the test of user.id, can_clock_out, and the 'Cannot Clock
\* Out' answer
clock_out_gate(p) ==
    /\ UNCHANGED pure_vars
    /\ pc[p] = "gate" /\ cmd[p] = "clock_out"
    /\ IF user[p] = 0
       THEN Return(p, "Database Error")
       ELSE IF can_clock_out(user[p])
       THEN /\ pc' = [pc EXCEPT ![p] = "create"]
            /\ UNCHANGED <<cmd, caller, user, type_obj, response, followups>>
       ELSE Return(p, "Cannot Clock Out")
    /\ UNCHANGED <<plan, clock, users, attendance_types, attendance_records, serial>>

\* clock_out: create_attendance_record and the 'Clocked Out' answer
clock_out_create(p) ==
    /\ UNCHANGED pure_vars
    /\ pc[p] = "create" /\ cmd[p] = "clock_out"
    /\ Len(attendance_records) < MaxRecords
    /\ attendance_records' = create_attendance_record(user[p], "clock_out", 0)
    /\ Return(p, "Clocked Out")
    /\ UNCHANGED <<plan, clock, users, attendance_types, serial>>

Next ==
    \/ Tick
    \/ \E p \in Procs : clock_in_defer(p)
    \/ \E p \in Procs : clock_out_defer(p)
    \/ \E p \in Procs : get_or_create_user_select(p)
    \/ \E p \in Procs : get_or_create_user_insert(p)
    \/ \E p \in Procs : clock_in_gate(p)
    \/ \E p \in Procs : clock_in_get_type(p)
    \/ \E p \in Procs : clock_in_create(p)
    \/ \E p \in Procs : clock_out_gate(p)
    \/ \E p \in Procs : clock_out_create(p)

Spec == Init /\ [][Next]_vars

\* ------------------------------- calculate_daily_work_hours on its own
TimesOfDay == {9 * 3600, 12 * 3600, 13 * 3600, 17 * 3600, 17 * 3600 + 1800}

\* a record as get_latest_record and its siblings build it from a row
Row(id, record_type, attendance_type_id, timestamp) ==
    [id |-> id, user_id |-> 1, record_type |-> record_type,
     attendance_type_id |-> attendance_type_id, timestamp |-> timestamp]

DayInit == MachineInit /\ plan = "user_id_index" /\ PureInit

\* one more record of the day, in any order
day_add ==
    /\ ~day_result.done
    /\ Len(day_records) < MaxDayRecords
    /\ \E record_type \in {"clock_in", "clock_out"}, t \in TimesOfDay :
         day_records' = Append(day_records,
             Row(Len(day_records) + 1, record_type,
                 IF record_type = "clock_in" THEN 1 ELSE 0,
                 Monday * SecondsPerDay + t))
    /\ UNCHANGED <<machine_vars, inits, utc_offset, day_result, week_records, week_result,
                   target_date, weeks_offset, window_result>>

day_run ==
    /\ ~day_result.done
    /\ LET r == calculate_daily_work_hours(day_records)
       IN day_result' = [done |-> TRUE, total_seconds |-> r.total_seconds,
                         has_incomplete |-> r.has_incomplete]
    /\ UNCHANGED <<machine_vars, inits, utc_offset, day_records, week_records, week_result,
                   target_date, weeks_offset, window_result>>

DayNext == day_add \/ day_run

DaySpec == DayInit /\ [][DayNext]_vars

\* ------------------------------------------- the weekly view on its own
\* Monday and Sunday of one week and the Monday after it
WeekDays == {Monday, Monday + 6, Monday + 7}
WeekTimes == {9 * 3600, 17 * 3600 + 1800}
\* record_type and attendance_type_id: a clock-in of either of two types or
\* of none (the column is nullable), a clock-out
WeekKinds == {<<"clock_in", 1>>, <<"clock_in", 2>>, <<"clock_in", 0>>, <<"clock_out", 0>>}
\* datetime.now() of the command: the Tuesday after
NowChoices == {[day |-> Monday + 8, second |-> 10 * 3600, microsecond |-> 500000]}

WeekInit == MachineInit /\ plan = "user_id_index" /\ PureInit

\* one more record handed to the view, in ascending order of timestamp
week_add ==
    /\ week_result.response = "none"
    /\ Len(week_records) < MaxWeekRecords
    /\ \E d \in WeekDays, t \in WeekTimes, k \in WeekKinds :
         LET ts == d * SecondsPerDay + t
         IN /\ week_records # <<>> => week_records[Len(week_records)].timestamp <= ts
            /\ week_records' = Append(week_records,
                   Row(Len(week_records) + 1, k[1], k[2], ts))
    /\ UNCHANGED <<machine_vars, inits, utc_offset, day_records, day_result, week_result,
                   target_date, weeks_offset, window_result>>

show_weekly_attendance(offset) ==
    /\ week_result.response = "none"
    /\ \E now \in NowChoices :
         LET w == get_week_start_end(now, offset)
         IN week_result' = weekly_aggregation(week_records, w.week_start)
    /\ UNCHANGED <<machine_vars, inits, utc_offset, day_records, day_result, week_records,
                   target_date, weeks_offset, window_result>>

this_week == show_weekly_attendance(0)

last_week == show_weekly_attendance(-1)

WeekNext == week_add \/ this_week \/ last_week

WeekSpec == WeekInit /\ [][WeekNext]_vars

\* ----------------------------------------- get_week_start_end on its own
TargetSeconds == {0, 1, 12 * 3600, SecondsPerDay - 1}
TargetMicros == {0, 999999}
TargetDates == [day : Monday..(Monday + 13), second : TargetSeconds,
                microsecond : TargetMicros]

WindowInit ==
    /\ MachineInit /\ plan = "user_id_index"
    /\ day_records = <<>>
    /\ day_result = NoDayResult
    /\ week_records = <<>>
    /\ week_result = NoWeekResult
    /\ target_date \in TargetDates
    /\ weeks_offset \in (-MaxWeeksOffset)..MaxWeeksOffset
    /\ window_result = NoWindow
    /\ inits = 1
    /\ utc_offset = 0

window_run ==
    /\ ~window_result.done
    /\ LET w == get_week_start_end(target_date, weeks_offset)
       IN window_result' = [done |-> TRUE, week_start |-> w.week_start,
                            week_end |-> w.week_end]
    /\ UNCHANGED <<machine_vars, inits, utc_offset, day_records, day_result, week_records,
                   week_result, target_date, weeks_offset>>

WindowNext == window_run

WindowSpec == WindowInit /\ [][WindowNext]_vars

\* ------------------------------- one handler at a time, and restarts
\* the methods class Database defines
database_methods ==
    {"__init__", "init_database", "_insert_default_attendance_types",
     "get_or_create_user", "get_attendance_types",
     "get_attendance_type_by_name", "get_latest_record", "can_clock_in",
     "can_clock_out", "create_attendance_record",
     "get_user_attendance_summary", "get_user_records", "close"}

this_week_defer(p) ==
    \E d \in DiscordIds : Begin(p, "this_week", d)

last_week_defer(p) ==
    \E d \in DiscordIds : Begin(p, "last_week", d)

\* _show_weekly_attendance after get_or_create_user: the week's window is
\* computed and self.db.get_user_records_by_week is looked up; class
\* Database has no such attribute, the AttributeError reaches the command's
\* except branch, which answers 'System Error'
weekly_get_records(p) ==
    /\ UNCHANGED pure_vars
    /\ pc[p] = "gate" /\ cmd[p] \in {"this_week", "last_week"}
    /\ "get_user_records_by_week" \notin database_methods
    /\ Return(p, "System Error")
    /\ UNCHANGED <<plan, clock, users, attendance_types, attendance_records, serial>>

my_summary_defer(p) ==
    \E d \in DiscordIds : Begin(p, "my_summary", d)

\* my_summary after get_or_create_user: the test of user.id, then
\* get_user_attendance_summary and 'if not summary', which only None
\* satisfies (AttendanceSummary is a pydantic model, always true), then the
\* summary embed
my_summary_show(p) ==
    /\ UNCHANGED pure_vars
    /\ pc[p] = "gate" /\ cmd[p] = "my_summary"
    /\ LET summary == get_user_attendance_summary(user[p])
       IN IF user[p] = 0
          THEN Return(p, "Database Error")
          ELSE IF summary = NoSummary
          THEN Return(p, "No Attendance Records")
          ELSE Return(p, "Your Attendance Summary")
    /\ UNCHANGED <<plan, clock, users, attendance_types, attendance_records, serial>>

\* an await of the try block raises before anything new is committed (the
\* database cannot be opened or is locked, Discord refuses a follow-up): the
\* except branch answers 'System Error'
except_before_commit(p) ==
    /\ UNCHANGED pure_vars
    /\ pc[p] # "idle"
    /\ Return(p, "System Error")
    /\ UNCHANGED <<plan, clock, users, attendance_types, attendance_records, serial>>

\* create_attendance_record has committed the INSERT and the read-back of
\* the row, or the sending of the success message, raises: the except
\* branch answers 'System Error'
except_after_commit(p) ==
    /\ UNCHANGED pure_vars
    /\ pc[p] = "create" /\ cmd[p] \in {"clock_in", "clock_out"}
    /\ Len(attendance_records) < MaxRecords
    /\ attendance_records' = create_attendance_record(user[p], cmd[p],
                                 IF cmd[p] = "clock_in" THEN type_obj[p] ELSE 0)
    /\ Return(p, "System Error")
    /\ UNCHANGED <<plan, clock, users, attendance_types, serial>>

\* the bot starts again on the same database file: setup_hook runs
\* init_database; CREATE TABLE IF NOT EXISTS keeps the tables and their rows
init_database ==
    /\ \A p \in Procs : pc[p] = "idle"
    /\ inits < MaxInits
    /\ inits' = inits + 1
    /\ attendance_types' = insert_default_attendance_types(attendance_types)
    /\ UNCHANGED <<plan, clock, users, attendance_records,
                   pc, cmd, caller, user, type_obj, response, followups,
                   serial>>
    /\ UNCHANGED <<day_records, day_result, week_records, week_result,
                   target_date, weeks_offset, window_result, utc_offset>>

SeqProcs == {1}

SeqNext ==
    \/ Tick
    \/ init_database
    \/ \E p \in SeqProcs : clock_in_defer(p)
    \/ \E p \in SeqProcs : clock_out_defer(p)
    \/ \E p \in SeqProcs : this_week_defer(p)
    \/ \E p \in SeqProcs : last_week_defer(p)
    \/ \E p \in SeqProcs : get_or_create_user_select(p)
    \/ \E p \in SeqProcs : get_or_create_user_insert(p)
    \/ \E p \in SeqProcs : clock_in_gate(p)
    \/ \E p \in SeqProcs : clock_in_get_type(p)
    \/ \E p \in SeqProcs : clock_in_create(p)
    \/ \E p \in SeqProcs : clock_out_gate(p)
    \/ \E p \in SeqProcs : clock_out_create(p)
    \/ \E p \in SeqProcs : weekly_get_records(p)
    \/ \E p \in SeqProcs : my_summary_defer(p)
    \/ \E p \in SeqProcs : my_summary_show(p)

SeqSpec == Init /\ [][SeqNext]_vars

\* the same with awaits that raise
FaultNext ==
    \/ SeqNext
    \/ \E p \in SeqProcs : except_before_commit(p)
    \/ \E p \in SeqProcs : except_after_commit(p)

FaultSpec == Init /\ [][FaultNext]_vars

\* --------------------------- a clock-in and its weekly view, by time zone
ZoneOffsets == {-5 * 3600, 0, 9 * 3600}
ZoneSeconds == {1800, 8 * 3600, 23 * 3600 + 1800}

\* DEFAULT CURRENT_TIMESTAMP: the UTC time, to the second, of the moment
\* the host's local clock shows 'now'
current_timestamp(now) ==
    now.day * SecondsPerDay + now.second - utc_offset

ZoneInit ==
    /\ MachineInit /\ plan = "user_id_index"
    /\ day_records = <<>>
    /\ day_result = NoDayResult
    /\ week_records = <<>>
    /\ week_result = NoWeekResult
    /\ target_date \in [day : Monday..(Monday + 6), second : ZoneSeconds,
                         microsecond : {0}]
    /\ weeks_offset = 0
    /\ window_result = NoWindow
    /\ inits = 1
    /\ utc_offset \in ZoneOffsets

\* the record a clock-in at local time target_date leaves in the store
zone_clock_in ==
    /\ week_records = <<>>
    /\ week_records' = <<Row(1, "clock_in", 1, current_timestamp(target_date))>>
    /\ UNCHANGED <<machine_vars, inits, utc_offset, day_records, day_result,
                   week_result, target_date, weeks_offset, window_result>>

\* the this-week view at the same local time, handed that record
zone_this_week ==
    /\ week_records # <<>>
    /\ week_result.response = "none"
    /\ LET now == target_date
           w == get_week_start_end(now, weeks_offset)
       IN week_result' = weekly_aggregation(week_records, w.week_start)
    /\ UNCHANGED <<machine_vars, inits, utc_offset, day_records, day_result,
                   week_records, target_date, weeks_offset, window_result>>

ZoneNext == zone_clock_in \/ zone_this_week

ZoneSpec == ZoneInit /\ [][ZoneNext]_vars

\* ------------------------------- the weekly view of sessions over midnight
\* a Wednesday and the Thursday after it; half past midnight and 22:00
NightDays == {Monday + 2, Monday + 3}
NightTimes == {1800, 22 * 3600}

\* one more clock-in or clock-out around midnight, in order of timestamp
night_add ==
    /\ week_result.response = "none"
    /\ Len(week_records) < MaxWeekRecords
    /\ \E d \in NightDays, t \in NightTimes, record_type \in {"clock_in", "clock_out"} :
         LET ts == d * SecondsPerDay + t
         IN /\ week_records # <<>> => week_records[Len(week_records)].timestamp <= ts
            /\ week_records' = Append(week_records,
                   Row(Len(week_records) + 1, record_type,
                       IF record_type = "clock_in" THEN 1 ELSE 0, ts))
    /\ UNCHANGED <<machine_vars, inits, utc_offset, day_records, day_result,
                   week_result, target_date, weeks_offset, window_result>>

NightNext == night_add \/ last_week

NightSpec == WeekInit /\ [][NightNext]_vars

\* ------------------------------------------------------------ properties
UserIds == 1..Cardinality(DiscordIds)

\* the attendance records of one user, in insertion order
RecordsOf(user_id) ==
    SelectSeq(attendance_records, LAMBDA r : r.user_id = user_id)

\* C1: for every user in every state of the store, can_clock_in is true
\* exactly when the latest record is absent or a clock_out, can_clock_out is
\* true exactly when the latest record is a clock_in, and exactly one of the
\* two is true.
C1_GateExclusive ==
    \A u \in UserIds :
        LET latest == get_latest_record(u)
        IN /\ can_clock_in(u) <=> (latest = NoRecord \/ latest.record_type = "clock_out")
           /\ can_clock_out(u) <=> (latest # NoRecord /\ latest.record_type = "clock_in")
           /\ can_clock_in(u) # can_clock_out(u)

\* one user is IN (may clock out only) while another is OUT after a full
\* session (may clock in only)
C1_Witness ==
    \E u, v \in UserIds :
        /\ get_latest_record(u).record_type = "clock_in"
        /\ can_clock_out(u) /\ ~can_clock_in(u)
        /\ get_latest_record(v).record_type = "clock_out"
        /\ can_clock_in(v) /\ ~can_clock_out(v)

Alternates(s) ==
    \A i \in 1..Len(s) :
        s[i].record_type = IF i % 2 = 1 THEN "clock_in" ELSE "clock_out"

\* C2: when the commands of a user were handled one at a time, the user's
\* records in insertion order alternate clock_in, clock_out, ... starting
\* with clock_in.
C2_SerialAlternates ==
    \A d \in DiscordIds :
        (serial /\ select_user(d) # 0) => Alternates(RecordsOf(select_user(d)))

\* C3: under every interleaving of the handlers the stored records of a user
\* never hold two clock_in in a row nor two clock_out in a row.
C3_ConcurrentAlternates ==
    \A u \in UserIds :
        \A i \in 1..(Len(RecordsOf(u)) - 1) :
            RecordsOf(u)[i].record_type # RecordsOf(u)[i + 1].record_type

\* ---- calculate_daily_work_hours (DaySpec)
\* C4: for every list of one day's records, in any order, with duplicates
\* and equal timestamps, the worked hours returned are >= 0.
C4_NonNegative ==
    day_result.done => day_result.total_seconds >= 0

\* a list that comes with a clock_out ahead of an earlier clock_in
C4_Witness ==
    /\ day_result.done
    /\ Len(day_records) >= 2
    /\ day_records[1].record_type = "clock_out"
    /\ day_records[2].record_type = "clock_in"
    /\ day_records[2].timestamp < day_records[1].timestamp
    /\ day_result.total_seconds > 0

\* the number of records of the list with an earlier timestamp
Rank(records, i) ==
    Cardinality({j \in 1..Len(records) : records[j].timestamp < records[i].timestamp})

\* in_1 < out_1 < in_2 < out_2 < ... < in_n < out_n once ordered by timestamp
WellFormed(records) ==
    /\ Len(records) % 2 = 0
    /\ \A i, j \in 1..Len(records) :
           i # j => records[i].timestamp # records[j].timestamp
    /\ \A i \in 1..Len(records) :
           records[i].record_type =
               IF Rank(records, i) % 2 = 0 THEN "clock_in" ELSE "clock_out"

RECURSIVE SumTimestamps(_, _)
SumTimestamps(records, record_type) ==
    IF records = <<>> THEN 0
    ELSE (IF Head(records).record_type = record_type
          THEN Head(records).timestamp ELSE 0)
         + SumTimestamps(Tail(records), record_type)

\* the times of day of the records of the list
TimesOf(records) ==
    {records[i].timestamp - Monday * SecondsPerDay : i \in 1..Len(records)}

\* the two days of the examples: 09:00-17:30, and 09:00-12:00 with 13:00-17:00
OnePairDay(records) ==
    /\ WellFormed(records)
    /\ Len(records) = 2
    /\ TimesOf(records) = {9 * 3600, 17 * 3600 + 1800}

TwoPairDay(records) ==
    /\ WellFormed(records)
    /\ Len(records) = 4
    /\ TimesOf(records) = {9 * 3600, 12 * 3600, 13 * 3600, 17 * 3600}

\* the sum over i of (out_i - in_i), and incomplete = false
SumOfPairs(records, result) ==
    /\ result.total_seconds =
           SumTimestamps(records, "clock_out") - SumTimestamps(records, "clock_in")
    /\ ~result.has_incomplete

\* C5 as stated: for a day that is a well-formed alternation in timestamp
\* order the worked time is the sum of (out_i - in_i) and incomplete is
\* false; 09:00-17:30 gives 8.5 h, 09:00-12:00 and 13:00-17:00 give 8 h.
C5_AsStated ==
    (day_result.done /\ WellFormed(day_records)) =>
        /\ SumOfPairs(day_records, day_result)
        /\ OnePairDay(day_records) => 2 * day_result.total_seconds = 17 * 3600
        /\ TwoPairDay(day_records) => day_result.total_seconds = 8 * 3600

\* C5 amended: for a day that is a well-formed alternation in timestamp
\* order the worked time is the sum of (out_i - in_i) and incomplete is
\* false; 09:00-17:30 gives 8.5 h, 09:00-12:00 and 13:00-17:00 give 7 h.
C5_WellFormedSum ==
    (day_result.done /\ WellFormed(day_records)) =>
        /\ SumOfPairs(day_records, day_result)
        /\ OnePairDay(day_records) => 2 * day_result.total_seconds = 17 * 3600
        /\ TwoPairDay(day_records) => day_result.total_seconds = 7 * 3600

\* 09:00-12:00 and 13:00-17:00, handed over out of order
C5_Witness ==
    /\ day_result.done
    /\ TwoPairDay(day_records)
    /\ day_records[1].record_type = "clock_out"
    /\ day_result.total_seconds = 3 * 3600 + 4 * 3600
    /\ ~day_result.has_incomplete

\* record j comes after record i in timestamp order (equal timestamps keep
\* the order of the list)
After(records, j, i) ==
    \/ records[j].timestamp > records[i].timestamp
    \/ records[j].timestamp = records[i].timestamp /\ j > i

\* the positions of the last clock_in of the day, when no clock_out follows it
TrailingClockIn(records) ==
    {i \in 1..Len(records) :
        /\ records[i].record_type = "clock_in"
        /\ \A j \in 1..Len(records) : ~After(records, j, i)}

RemoveAt(records, i) ==
    SubSeq(records, 1, i - 1) \o SubSeq(records, i + 1, Len(records))

\* C6: incomplete is true exactly when the last clock_in of the day, in
\* timestamp order, is followed by no clock_out; that clock_in adds 0 to
\* the worked hours.
C6_IncompleteIffTrailing ==
    day_result.done =>
        /\ day_result.has_incomplete <=>
               \E i \in 1..Len(day_records) :
                   /\ day_records[i].record_type = "clock_in"
                   /\ \A j \in 1..Len(day_records) :
                          After(day_records, j, i) =>
                              day_records[j].record_type = "clock_in"
        /\ \A i \in TrailingClockIn(day_records) :
               calculate_daily_work_hours(RemoveAt(day_records, i)).total_seconds
                   = day_result.total_seconds

\* a finished session and then a clock_in that stays open
C6_Witness ==
    /\ day_result.done
    /\ day_result.has_incomplete
    /\ day_result.total_seconds > 0
    /\ TrailingClockIn(day_records) # {}

\* ---- the weekly view (WeekSpec)
\* the records of the view that fall on day i (0..6) of the week shown
Bucket(i) ==
    SelectSeq(week_records,
              LAMBDA r : record_date(r) = week_result.week_start.day + i)

DayHours(i) == calculate_daily_work_hours(Bucket(i)).total_seconds

RECURSIVE SumDayHours(_)
SumDayHours(i) == IF i < 0 THEN 0 ELSE DayHours(i) + SumDayHours(i - 1)

\* C7: the weekly total equals the sum of calculate_daily_work_hours over
\* the 7 days week_start .. week_start + 6, an empty day giving 0 and not
\* incomplete.
C7_TotalIsSumOfDays ==
    week_result.response = "summary" =>
        /\ week_result.total_work_hours = SumDayHours(6)
        /\ \A i \in 0..6 :
               Bucket(i) = <<>> =>
                   /\ DayHours(i) = 0
                   /\ week_result.week_start.day + i
                          \notin {week_result.incomplete_sessions[k] :
                                     k \in 1..Len(week_result.incomplete_sessions)}

\* a week worked on its Monday and on its Sunday
C7_Witness ==
    /\ week_result.response = "summary"
    /\ DayHours(0) > 0
    /\ DayHours(6) > 0
    /\ week_result.total_work_hours = DayHours(0) + DayHours(6)

\* C8: the worked-day count of the week is the number of its days whose
\* worked hours are > 0.
C8_WorkedDaysHaveHours ==
    week_result.response = "summary" =>
        week_result.work_days = Cardinality({i \in 0..6 : DayHours(i) > 0})

\* the usage count the view holds for a type name
UsageCount(name) ==
    LET at == {k \in 1..Len(week_result.attendance_type_count) :
                  week_result.attendance_type_count[k].name = name}
    IN IF at = {} THEN 0
       ELSE week_result.attendance_type_count[CHOOSE k \in at : TRUE].count

InWeek(r) ==
    /\ record_date(r) >= week_result.week_start.day
    /\ record_date(r) <= week_result.week_start.day + 6

\* C9: the usage count of each category is the number of clock_in records
\* of the week that carry it; clock_out records and clock_in records
\* without a category are counted nowhere, and no count mixes categories.
C9_CategoryCounts ==
    week_result.response = "summary" =>
        /\ \A t \in 1..Len(attendance_types) :
               UsageCount(attendance_types[t].type_name) =
                   Cardinality({k \in 1..Len(week_records) :
                       /\ InWeek(week_records[k])
                       /\ week_records[k].record_type = "clock_in"
                       /\ week_records[k].attendance_type_id = attendance_types[t].id})
        /\ \A k \in 1..Len(week_result.attendance_type_count) :
               /\ week_result.attendance_type_count[k].count > 0
               /\ \E t \in 1..Len(attendance_types) :
                      attendance_types[t].type_name
                          = week_result.attendance_type_count[k].name
               /\ \A l \in 1..Len(week_result.attendance_type_count) :
                      l # k => week_result.attendance_type_count[l].name
                                   # week_result.attendance_type_count[k].name

\* a week with clock-ins of two categories, one without a category and a
\* clock-out
C9_Witness ==
    /\ week_result.response = "summary"
    /\ UsageCount("Regular Work") = 1
    /\ UsageCount("Remote Work") = 1
    /\ \E k \in 1..Len(week_records) :
           /\ InWeek(week_records[k])
           /\ week_records[k].record_type = "clock_in"
           /\ week_records[k].attendance_type_id = 0
    /\ \E k \in 1..Len(week_records) :
           InWeek(week_records[k]) /\ week_records[k].record_type = "clock_out"

\* ---- get_week_start_end (WindowSpec)
\* the Monday of the week a day lies in
MondayOf(day) == CHOOSE m \in (day - 6)..day : m % 7 = 0

\* C10: the start is 00:00:00 of the Monday of the reference's week moved
\* by 7 * weeks_offset days, the end is 23:59:59 of the Sunday 6 days later,
\* and the time of day of the reference does not matter.
C10_WeekWindow ==
    window_result.done =>
        /\ window_result.week_start =
               [day |-> MondayOf(target_date.day) + 7 * weeks_offset,
                second |-> 0, microsecond |-> 0]
        /\ weekday(window_result.week_start) = 0
        /\ window_result.week_end =
               [day |-> window_result.week_start.day + 6,
                second |-> 23 * 3600 + 59 * 60 + 59, microsecond |-> 0]
        /\ weekday(window_result.week_end) = 6
        /\ \A s \in TargetSeconds, us \in TargetMicros :
               LET w == get_week_start_end(
                            [day |-> target_date.day, second |-> s,
                             microsecond |-> us], weeks_offset)
               IN /\ w.week_start = window_result.week_start
                  /\ w.week_end = window_result.week_end

\* a Sunday, one microsecond before midnight, asked for an earlier week
C10_Witness ==
    /\ window_result.done
    /\ weekday(target_date) = 6
    /\ target_date.second = SecondsPerDay - 1
    /\ target_date.microsecond = 999999
    /\ weeks_offset < 0
    /\ window_result.week_start.day = target_date.day - 6 + 7 * weeks_offset


\* ---- the weekly view, continued (WeekSpec)
\* C11: a weekly view of a user with no records in the requested week is
\* not an error and gives a weekly summary with zero totals.
C11_EmptyWeekSummary ==
    (/\ week_result.response # "none"
     /\ \A k \in 1..Len(week_records) : ~InWeek(week_records[k])) =>
        /\ week_result.response = "summary"
        /\ week_result.total_work_hours = 0
        /\ week_result.work_days = 0
        /\ week_result.incomplete_sessions = <<>>

\* C12: when the records handed to the weekly aggregation hold a record
\* dated outside week_start .. week_start + 6, the aggregation fails with an
\* explicit error instead of giving totals without the record.
C12_OutOfRangeFails ==
    (/\ week_result.response # "none"
     /\ \E k \in 1..Len(week_records) : ~InWeek(week_records[k])) =>
        week_result.response = "error"

\* ---- calculate_daily_work_hours, continued (DaySpec)
\* the record right before record j in timestamp order, 0 when j is first
Pred(records, j) ==
    LET before == {i \in 1..Len(records) : After(records, j, i)}
    IN IF before = {} THEN 0
       ELSE CHOOSE i \in before : \A k \in before : k = i \/ After(records, i, k)

\* the sum, over the clock_outs right after a clock_in, of the time between
\* the two
RECURSIVE PairSum(_, _)
PairSum(records, j) ==
    IF j = 0 THEN 0
    ELSE PairSum(records, j - 1)
         + (IF /\ records[j].record_type = "clock_out"
               /\ Pred(records, j) # 0
               /\ records[Pred(records, j)].record_type = "clock_in"
            THEN records[j].timestamp - records[Pred(records, j)].timestamp
            ELSE 0)

\* C18: a clock_in that comes while an earlier clock_in is open replaces it:
\* every clock_out adds only the time since the latest clock_in before it,
\* and nothing is counted twice.
C18_LaterClockInReplaces ==
    day_result.done =>
        day_result.total_seconds = PairSum(day_records, Len(day_records))

\* 09:00 in, 12:00 in, 17:00 out: five hours, not eight
C18_Witness ==
    /\ day_result.done
    /\ Len(day_records) = 3
    /\ \E i, k, j \in 1..3 :
           /\ day_records[i].record_type = "clock_in"
           /\ day_records[k].record_type = "clock_in"
           /\ day_records[j].record_type = "clock_out"
           /\ day_records[i].timestamp < day_records[k].timestamp
           /\ day_records[k].timestamp < day_records[j].timestamp
           /\ day_result.total_seconds
                  = day_records[j].timestamp - day_records[k].timestamp
    /\ ~day_result.has_incomplete

\* the clock_outs with no clock_in open before them: first of the day, or
\* right after another clock_out
Orphans(records) ==
    {j \in 1..Len(records) :
        /\ records[j].record_type = "clock_out"
        /\ \/ Pred(records, j) = 0
           \/ records[Pred(records, j)].record_type = "clock_out"}

\* C19: a clock_out with no clock_in open before it adds 0 to the worked
\* hours and does not make the day incomplete: the result is the one of the
\* day without it.
C19_OrphanClockOutIgnored ==
    day_result.done =>
        \A j \in Orphans(day_records) :
            LET r == calculate_daily_work_hours(RemoveAt(day_records, j))
            IN /\ r.total_seconds = day_result.total_seconds
               /\ r.has_incomplete = day_result.has_incomplete
               /\ (Len(day_records) = 1 =>
                       day_result.total_seconds = 0 /\ ~day_result.has_incomplete)

\* a clock_out that opens the day, one right after another clock_out
C19_Witness ==
    /\ day_result.done
    /\ \E j, k \in Orphans(day_records) :
           /\ Pred(day_records, j) = 0
           /\ Pred(day_records, k) # 0
    /\ day_result.total_seconds > 0
    /\ ~day_result.has_incomplete


\* ---- the store, continued (Spec)
\* C15: get_or_create_user gives a non-null id that belongs to the row of
\* the caller's discord_id, whatever ran before, and the table never holds
\* two rows of one discord_id: calling again returns the same id.
C15_GetOrCreateUser ==
    /\ \A i, j \in 1..Len(users) :
           users[i].discord_id = users[j].discord_id => i = j
    /\ \A i \in 1..Len(users) : users[i].id = i
    /\ \A p \in Procs :
           pc[p] \in {"gate", "get_type", "create"} =>
               /\ user[p] \in 1..Len(users)
               /\ users[user[p]].discord_id = caller[p]

\* both paths taken: one handler created the second row, the other found
\* the first row that an earlier command had created
C15_Witness ==
    /\ Len(users) = 2
    /\ pc[1] = "gate" /\ pc[2] = "gate"
    /\ user[1] # user[2]
    /\ \E p \in Procs : Len(RecordsOf(user[p])) > 0

\* C17: for every user in every state of the store,
\* get_user_attendance_summary reports as total_records the number of the
\* user's records and as is_currently_clocked_in the verdict of
\* can_clock_out; without a users row it gives None.
C17_SummaryAgrees ==
    \A u \in UserIds :
        LET summary == get_user_attendance_summary(u)
        IN IF u \in 1..Len(users)
           THEN /\ summary.user_id = u
                /\ summary.total_records = Len(RecordsOf(u))
                /\ summary.is_currently_clocked_in = can_clock_out(u)
           ELSE summary = NoSummary

\* one user clocked in and out within one second, the other clocked in
C17_Witness ==
    /\ Len(users) = 2
    /\ \E u, v \in UserIds :
           /\ get_user_attendance_summary(u).total_records = 2
           /\ get_user_attendance_summary(u).latest_clock_in
                  = get_user_attendance_summary(u).latest_clock_out
           /\ get_user_attendance_summary(v).total_records = 1
           /\ get_user_attendance_summary(v).is_currently_clocked_in

\* C20: of the records of one user that share the latest timestamp,
\* get_latest_record returns the one inserted last.
C20_TieByInsertionOrder ==
    \A u \in UserIds :
        Len(RecordsOf(u)) > 0 =>
            \A k \in 1..Len(attendance_records) :
                (/\ attendance_records[k].user_id = u
                 /\ attendance_records[k].timestamp
                        = get_latest_record(u).timestamp) =>
                    attendance_records[k].id <= get_latest_record(u).id

\* ---- time zones (ZoneSpec)
\* C13: a record created at local time t is shown by the weekly view in
\* the bucket of the local calendar date of t, within the week of the local
\* clock that contains t, whatever the offset between local time and the
\* store's UTC stamps.
C13_LocalDateBucket ==
    week_result.response # "none" =>
        /\ week_result.response = "summary"
        /\ week_result.work_days = 1
        /\ week_result.incomplete_sessions = <<target_date.day>>

\* ---- the weekly commands and restarts (SeqSpec)
\* datetime.now() of a handler, on a host whose clock is the store's
ClockNow ==
    [day |-> clock \div SecondsPerDay, second |-> clock % SecondsPerDay,
     microsecond |-> 0]

\* the record lies in the week the command asks for
InRequestedWeek(record, c) ==
    LET w == get_week_start_end(ClockNow, IF c = "this_week" THEN 0 ELSE -1)
    IN /\ w.week_start.day * SecondsPerDay + w.week_start.second <= record.timestamp
       /\ record.timestamp <= w.week_end.day * SecondsPerDay + w.week_end.second

\* C14: a this-week or last-week command of a user with records in the
\* requested week reads them from the store and ends with the weekly
\* summary, not with 'System Error'.
C14_WeeklyEndsWithSummary ==
    [][\A p \in Procs :
         (/\ cmd[p] \in {"this_week", "last_week"}
          /\ pc[p] = "gate" /\ pc'[p] = "idle"
          /\ \E k \in 1..Len(attendance_records) :
                 /\ attendance_records[k].user_id = user[p]
                 /\ InRequestedWeek(attendance_records[k], cmd[p]))
         => response'[p] = "summary"]_vars

\* each default type is listed exactly once, and nothing else is
DefaultsOnce ==
    /\ Len(get_attendance_types) = Len(default_types)
    /\ \A n \in 1..Len(default_types) :
           Cardinality({i \in 1..Len(get_attendance_types) :
               get_attendance_types[i].type_name = default_types[n]}) = 1

\* C16: after init_database has run once or more, get_attendance_types
\* lists each of the five default types exactly once; a further run adds no
\* duplicate and removes no type, user or record.
C16_InitIdempotent ==
    /\ []DefaultsOnce
    /\ [][inits' # inits =>
            /\ attendance_types' = attendance_types
            /\ users' = users
            /\ attendance_records' = attendance_records]_vars

\* the third run, on a database that holds users and records
C16_Witness ==
    /\ inits = 3
    /\ Len(users) = 2
    /\ Len(attendance_records) = 3
    /\ DefaultsOnce

\* ---- the most used category (WeekSpec)
\* place in the list of the first clock_in of the week that counts for the
\* category; the view goes through the days in order and through a day's
\* records in list order, and the list is in order of timestamp
FirstSeen(name) ==
    LET at == {k \in 1..Len(week_records) :
                  /\ InWeek(week_records[k])
                  /\ counts_type(week_records[k])
                  /\ type_name_of(week_records[k].attendance_type_id) = name}
    IN IF at = {} THEN 0 ELSE CHOOSE k \in at : \A j \in at : k <= j

\* C21: the category shown as most used has the highest usage count, and
\* among several with that count it is the one whose first clock_in the
\* view met first.
C21_MostUsed ==
    week_result.response = "summary" =>
        IF week_result.attendance_type_count = <<>>
        THEN week_result.most_used = NoItem
        ELSE /\ week_result.most_used.count = UsageCount(week_result.most_used.name)
             /\ FirstSeen(week_result.most_used.name) # 0
             /\ \A t \in 1..Len(attendance_types) :
                    LET other == attendance_types[t].type_name
                    IN /\ UsageCount(other) <= week_result.most_used.count
                       /\ (/\ UsageCount(other) = week_result.most_used.count
                           /\ other # week_result.most_used.name) =>
                              FirstSeen(week_result.most_used.name) < FirstSeen(other)

\* two categories used once each: the one met first is shown, whichever it is
C21_Witness ==
    /\ week_result.response = "summary"
    /\ UsageCount("Regular Work") = 1
    /\ UsageCount("Remote Work") = 1
    /\ week_result.most_used.name = "Remote Work"
    /\ FirstSeen("Remote Work") < FirstSeen("Regular Work")

\* ---- the end of the week (WindowSpec)
\* a <= b for datetimes
NotAfter(a, b) ==
    \/ a.day < b.day
    \/ a.day = b.day /\ a.second < b.second
    \/ a.day = b.day /\ a.second = b.second /\ a.microsecond <= b.microsecond

\* the weeks_offset values whose window holds the instant
OffsetsHolding(instant, reference) ==
    {o \in (-MaxWeeksOffset)..MaxWeeksOffset :
        LET w == get_week_start_end(reference, o)
        IN NotAfter(w.week_start, instant) /\ NotAfter(instant, w.week_end)}

\* C22: the window reaches to the last millisecond of Sunday: every instant
\* lies in the window of exactly one weeks_offset, and the reference instant
\* lies in the window of weeks_offset 0.
C22_WindowHoldsReference ==
    (window_result.done /\ weeks_offset = 0) =>
        /\ NotAfter(window_result.week_start, target_date)
        /\ NotAfter(target_date, window_result.week_end)
        /\ OffsetsHolding(target_date, target_date) = {0}

\* ---- sessions over midnight (NightSpec)
\* the records are one clock_in and, on the next day, its clock_out
OverMidnight ==
    /\ Len(week_records) = 2
    /\ week_records[1].record_type = "clock_in"
    /\ week_records[2].record_type = "clock_out"
    /\ week_records[2].timestamp \div SecondsPerDay
           = week_records[1].timestamp \div SecondsPerDay + 1
    /\ InWeek(week_records[1]) /\ InWeek(week_records[2])

\* C25: a session from a clock_in on day D to its clock_out on day D+1, with
\* no other records, adds 0 hours to both days and to the week, makes D
\* incomplete and D+1 not, and both days count as days with records.
C25_OverMidnight ==
    (week_result.response = "summary" /\ OverMidnight) =>
        /\ week_result.total_work_hours = 0
        /\ DayHours(record_date(week_records[1]) - week_result.week_start.day) = 0
        /\ DayHours(record_date(week_records[2]) - week_result.week_start.day) = 0
        /\ week_result.incomplete_sessions = <<record_date(week_records[1])>>
        /\ week_result.work_days = 2

\* in at 22:00 on Wednesday, out at 00:30 on Thursday
C25_Witness ==
    /\ week_result.response = "summary"
    /\ OverMidnight
    /\ week_records[2].timestamp - week_records[1].timestamp = 2 * 3600 + 1800

\* ---- the command handlers (Spec, SeqSpec, FaultSpec)
Rejections == {"Cannot Clock In", "Cannot Clock Out", "Invalid Attendance Type"}

\* C23: a clock-in or clock-out that is rejected adds no attendance record
\* and leaves the existing ones as they are: no step of a handler but the
\* one after the checks writes a record, a rejection is answered from the
\* checks, and the gate's own step writes nothing to the store.
C23_RejectedWritesNothing ==
    [][\A p \in Procs :
         /\ (pc[p] # pc'[p] /\ pc[p] # "create") =>
                attendance_records' = attendance_records
         /\ (pc[p] # "idle" /\ pc'[p] = "idle" /\ response'[p] \in Rejections) =>
                pc[p] \in {"gate", "get_type"}
         /\ (pc[p] = "gate" /\ pc'[p] # "gate") =>
                /\ users' = users
                /\ attendance_types' = attendance_types
                /\ attendance_records' = attendance_records]_vars

\* one handler was refused a clock-out, the other a type that does not
\* exist, with records in the store
C23_Witness ==
    /\ \E p \in Procs : response[p] = "Cannot Clock Out"
    /\ \E p \in Procs : response[p] = "Invalid Attendance Type"
    /\ Len(attendance_records) > 0

\* C24: a clock-in or clock-out that ends in 'System Error' has added no
\* attendance record, wherever in the handler the failure was raised.
C24_SystemErrorAddsNothing ==
    [][\A p \in Procs :
         (/\ cmd[p] \in {"clock_in", "clock_out"}
          /\ pc[p] # "idle" /\ pc'[p] = "idle"
          /\ response'[p] = "System Error") =>
             attendance_records' = attendance_records]_vars

\* what the store answers about the user of a discord_id; the answers are
\* read from plan, users and attendance_records alone
ViewOf(discord_id) ==
    LET u == select_user(discord_id)
    IN IF u = 0 THEN <<0>>
       ELSE <<u, get_latest_record(u), can_clock_in(u), can_clock_out(u),
              get_user_attendance_summary(u)>>

\* C26: a step of a command of one user, accepted or rejected, changes
\* nothing of what get_latest_record, can_clock_in, can_clock_out and the
\* summary say about another user.
C26_UsersIsolated ==
    [][\A p \in Procs :
         pc[p] # pc'[p] =>
             \A d \in DiscordIds :
                 (d # caller[p] /\ d # caller'[p]) =>
                     \/ /\ plan' = plan
                        /\ users' = users
                        /\ attendance_records' = attendance_records
                     \/ ViewOf(d)' = ViewOf(d)]_vars

\* both users have been served: one is clocked in, the other clocked in and
\* out and was then refused a clock-out
C26_Witness ==
    /\ Len(users) = 2
    /\ Len(RecordsOf(1)) = 1 /\ can_clock_out(1)
    /\ Len(RecordsOf(2)) = 2
    /\ \E p \in Procs : response[p] = "Cannot Clock Out"

\* C27: two commands of an unregistered user that both found no row both go
\* on with the one row of that discord_id; neither ends in 'System Error'.
C27_BothProceed ==
    [][\A p \in Procs :
         (pc[p] = "insert_user" /\ pc'[p] # "insert_user") =>
             /\ pc'[p] = "gate"
             /\ users'[user'[p]].discord_id = caller[p]]_vars

\* C28: an invocation sends no follow-up while it runs and has sent exactly
\* one when it has returned, on every path.
C28_OneFollowup ==
    \A p \in Procs :
        /\ pc[p] # "idle" => followups[p] = 0 /\ response[p] = "none"
        /\ pc[p] = "idle" =>
               followups[p] = (IF response[p] = "none" THEN 0 ELSE 1)

\* every answer of the clock commands has been given once, the last of them
\* the 'System Error' after the record was committed
C28_Witness ==
    /\ \E p \in Procs : response[p] = "System Error" /\ followups[p] = 1
    /\ Len(attendance_records) = 3
    /\ attendance_records[2].record_type = "clock_out"
    /\ attendance_records[3].record_type = "clock_out"

\* C29: my-summary of a user without attendance records answers 'No
\* Attendance Records', not a summary of 0 records.
C29_NoRecordsMessage ==
    [][\A p \in Procs :
         (/\ cmd[p] = "my_summary"
          /\ pc[p] = "gate" /\ pc'[p] = "idle"
          /\ Len(RecordsOf(user[p])) = 0) =>
             response'[p] = "No Attendance Records"]_vars

====
